---- MODULE Spec2Model ----
(***************************************************************************)
(* The Table component of src/src/index.tsx as a state machine.            *)
(*                                                                         *)
(* State: the four useState cells (currentPage, searchTerm, pageSize,      *)
(* sortConfig) and the props the component was constructed with (columns,  *)
(* data, pagination, sorting, filtering).  The memoised values sortedData, *)
(* filteredData, paginatedData and totalPages are recomputed on every      *)
(* render from the state, so they are state functions here.  A state      *)
(* whose render throws (RenderThrows) is an error state: the component is  *)
(* gone and takes no more events.                                          *)
(*                                                                         *)
(* Text is a sequence of one-character strings, so that toString,          *)
(* toLowerCase and includes are computed and not assumed.                  *)
(***************************************************************************)
EXTENDS Integers, Sequences, FiniteSets, TLC

VARIABLES columns, data, pagination, sorting, filtering,
          currentPage, searchTerm, pageSize, sortConfig

props == <<columns, data, pagination, sorting, filtering>>
vars == <<columns, data, pagination, sorting, filtering,
          currentPage, searchTerm, pageSize, sortConfig>>

----------------------------------------------------------------------------
(* Bounds of the model *)

\* longest data sequence enumerated exhaustively over RowPool
MaxRows == 2

----------------------------------------------------------------------------
(* JavaScript values and the native operations the component applies *)

Str(s) == [t |-> "string", s |-> s]
Num(n) == [t |-> "number", n |-> n]
Undefined == [t |-> "undefined"]

\* row[key]: a field the row lacks reads as undefined
Get(row, key) == IF key \in DOMAIN row THEN row[key] ELSE Undefined

\* UTF-16 code unit of the characters the model uses
CharCode(c) ==
  CASE c = "0" -> 48 [] c = "1" -> 49 [] c = "2" -> 50 [] c = "3" -> 51
    [] c = "4" -> 52 [] c = "5" -> 53 [] c = "6" -> 54 [] c = "7" -> 55
    [] c = "8" -> 56 [] c = "9" -> 57
    [] c = "A" -> 65 [] c = "B" -> 66 [] c = "C" -> 67 [] c = "M" -> 77
    [] c = "a" -> 97 [] c = "b" -> 98 [] c = "c" -> 99 [] c = "d" -> 100
    [] c = "i" -> 105 [] c = "m" -> 109 [] c = "o" -> 111 [] c = "x" -> 120
    [] c = "y" -> 121

\* String.prototype.toLowerCase on one character
LowerChar(c) ==
  CASE c = "A" -> "a" [] c = "B" -> "b" [] c = "C" -> "c" [] c = "M" -> "m"
    [] OTHER -> c

toLowerCase(s) == [i \in 1..Len(s) |-> LowerChar(s[i])]

Digit(d) ==
  CASE d = 0 -> "0" [] d = 1 -> "1" [] d = 2 -> "2" [] d = 3 -> "3"
    [] d = 4 -> "4" [] d = 5 -> "5" [] d = 6 -> "6" [] d = 7 -> "7"
    [] d = 8 -> "8" [] d = 9 -> "9"

RECURSIVE NumToString(_)
\* Number.prototype.toString of a non-negative integer: its decimal digits
NumToString(n) ==
  IF n < 10 THEN <<Digit(n)>> ELSE NumToString(n \div 10) \o <<Digit(n % 10)>>

\* value.toString(); undefined has no toString, the call throws a TypeError
ToStringThrows(v) == v.t = "undefined"
toString(v) == IF v.t = "number" THEN NumToString(v.n) ELSE v.s

\* String.prototype.includes
includes(hay, needle) ==
  \E i \in 0..(Len(hay) - Len(needle)) :
    SubSeq(hay, i + 1, i + Len(needle)) = needle

RECURSIVE StrLess(_, _)
\* a < b on two strings: lexicographic by code unit
StrLess(a, b) ==
  IF b = <<>> THEN FALSE
  ELSE IF a = <<>> THEN TRUE
  ELSE IF CharCode(Head(a)) < CharCode(Head(b)) THEN TRUE
  ELSE IF CharCode(Head(a)) > CharCode(Head(b)) THEN FALSE
  ELSE StrLess(Tail(a), Tail(b))

\* a < b by native ordering; with undefined on either side it is false
Less(a, b) ==
  IF a.t = "number" /\ b.t = "number" THEN a.n < b.n
  ELSE IF a.t = "string" /\ b.t = "string" THEN StrLess(a.s, b.s)
  ELSE FALSE

\* a > b by native ordering
Greater(a, b) == Less(b, a)

Min(a, b) == IF a < b THEN a ELSE b
Max(a, b) == IF a > b THEN a ELSE b

\* Math.ceil(n / d) for n >= 0, d > 0
Ceil(n, d) == (n + d - 1) \div d

\* Array.prototype.slice(start, end): negative indices count from the end,
\* both are clamped to [0, length]
Slice(s, start, end) ==
  LET len == Len(s)
      from == IF start < 0 THEN Max(len + start, 0) ELSE Min(start, len)
      to == IF end < 0 THEN Max(len + end, 0) ELSE Min(end, len)
  IN SubSeq(s, from + 1, to)

----------------------------------------------------------------------------
(* The inputs the model enumerates *)

Bob30 == [name |-> Str(<<"B", "o", "b">>), age |-> Num(30)]
Amy25 == [name |-> Str(<<"A", "m", "y">>), age |-> Num(25)]
Amy7 == [name |-> Str(<<"A", "m", "y">>), age |-> Num(7)]
Cid30 == [name |-> Str(<<"C", "i", "d">>), age |-> Num(30)]

\* two rows tie on name, and 7 < 25 < 30 as numbers but not as text
RowPool == {Bob30, Amy25, Amy7}

RECURSIVE SeqsUpTo(_, _)
SeqsUpTo(S, n) ==
  IF n = 0 THEN {<<>>}
  ELSE LET shorter == SeqsUpTo(S, n - 1)
       IN shorter \cup {Append(s, x) : s \in {q \in shorter : Len(q) = n - 1}, x \in S}

\* longer tables: rows that tie on name around another row, and five and
\* six rows, which make more than one page at page sizes 2 and 5
BobAmyCid == <<Bob30, Amy25, Cid30>>
AmyBobAmy == <<Amy25, Bob30, Amy7>>
FiveRows == <<Bob30, Amy25, Cid30, Amy7, Bob30>>
SixRows == <<Cid30, Amy7, Bob30, Amy25, Bob30, Amy7>>

\* the tables Init draws from; every row holds every accessor's field
DataSets == SeqsUpTo(RowPool, MaxRows) \cup {BobAmyCid, AmyBobAmy, FiveRows, SixRows}

\* rows that lack a field some column reads
AmyNoAge == [name |-> Str(<<"A", "m", "y">>)]
NoName30 == [age |-> Num(30)]

RowPoolMissing == {Bob30, AmyNoAge, NoName30}

\* the tables InitMissing draws from: rows may lack a field
DataSetsMissing == SeqsUpTo(RowPoolMissing, MaxRows)

NameCol == [header |-> "Name", accessor |-> "name", sortable |-> TRUE]
AgeCol(s) == [header |-> "Age", accessor |-> "age", sortable |-> s]

ColumnSets == {<<NameCol, AgeCol(FALSE)>>, <<NameCol, AgeCol(TRUE)>>}

\* the pagination prop: absent, or { pageSize }
NoPagination == [absent |-> TRUE]
Paginations == {NoPagination, [pageSize |-> 2]}

SearchTerms == {<<>>, <<"a">>, <<"M", "y">>, <<"b">>, <<"3">>, <<"x">>}

\* the <option> values of the page-size selector
PageSizeOptions == {5, 10, 25, 50}

\* sortConfig = null
Null == [null |-> TRUE]

----------------------------------------------------------------------------
(* The derivation pipeline *)

\* mutant of Compare: the comparator never returns 0
CompareNeverEqual(a, b, cfg) ==
  IF Less(Get(a, cfg.key), Get(b, cfg.key))
    THEN (IF cfg.direction = "ascending" THEN -1 ELSE 1)
  ELSE (IF cfg.direction = "ascending" THEN 1 ELSE -1)

\* the comparator handed to Array.prototype.sort
Compare(a, b, cfg) ==
  IF Less(Get(a, cfg.key), Get(b, cfg.key))
    THEN (IF cfg.direction = "ascending" THEN -1 ELSE 1)
  ELSE IF Greater(Get(a, cfg.key), Get(b, cfg.key))
    THEN (IF cfg.direction = "ascending" THEN 1 ELSE -1)
  ELSE 0

RECURSIVE InsertSortedUnstable(_, _, _)
\* mutant of InsertSorted: x also passes the elements that compare equal
InsertSortedUnstable(s, x, cfg) ==
  IF s = <<>> THEN <<x>>
  ELSE IF Compare(s[Len(s)], x, cfg) >= 0
    THEN Append(InsertSortedUnstable(SubSeq(s, 1, Len(s) - 1), x, cfg), s[Len(s)])
  ELSE Append(s, x)

RECURSIVE InsertSorted(_, _, _)
\* one step of a stable insertion sort: x goes after every element that
\* does not compare greater than it
InsertSorted(s, x, cfg) ==
  IF s = <<>> THEN <<x>>
  ELSE IF Compare(s[Len(s)], x, cfg) > 0
    THEN Append(InsertSorted(SubSeq(s, 1, Len(s) - 1), x, cfg), s[Len(s)])
  ELSE Append(s, x)

RECURSIVE SortBy(_, _)
\* [...rows].sort(comparator): Array.prototype.sort is stable
SortBy(rows, cfg) ==
  IF rows = <<>> THEN <<>>
  ELSE InsertSorted(SortBy(SubSeq(rows, 1, Len(rows) - 1), cfg), rows[Len(rows)], cfg)

Sorted(rows, enabled, cfg) ==
  IF ~enabled \/ cfg = Null THEN rows ELSE SortBy(rows, cfg)

sortedData == Sorted(data, sorting, sortConfig)

\* mutant of CellMatches: the cell text is not lowercased
CellMatchesCaseSensitive(row, column, term) ==
  includes(toString(Get(row, column.accessor)), toLowerCase(term))

\* the callback of columns.some(...) for one row and one column
CellMatches(row, column, term) ==
  includes(toLowerCase(toString(Get(row, column.accessor))), toLowerCase(term))

\* columns.some(...) for one row; it stops at the first matching column
RowMatches(row, cols, term) ==
  \E i \in 1..Len(cols) :
    /\ ~ToStringThrows(Get(row, cols[i].accessor))
    /\ CellMatches(row, cols[i], term)

\* columns.some(...) throws when it reaches a column whose value has no
\* toString before any column has matched
RowThrows(row, cols, term) ==
  \E i \in 1..Len(cols) :
    /\ ToStringThrows(Get(row, cols[i].accessor))
    /\ \A j \in 1..(i - 1) :
         /\ ~ToStringThrows(Get(row, cols[j].accessor))
         /\ ~CellMatches(row, cols[j], term)

RECURSIVE FilterRowsFirstOnly(_, _, _)
\* mutant of FilterRows: find instead of filter, the first kept row alone
FilterRowsFirstOnly(rows, cols, term) ==
  IF rows = <<>> THEN <<>>
  ELSE IF RowMatches(Head(rows), cols, term) THEN <<Head(rows)>>
  ELSE FilterRowsFirstOnly(Tail(rows), cols, term)

RECURSIVE FilterRows(_, _, _)
\* rows.filter(row => columns.some(...)): the kept rows in their order
FilterRows(rows, cols, term) ==
  IF rows = <<>> THEN <<>>
  ELSE LET rest == FilterRows(Tail(rows), cols, term)
       IN IF RowMatches(Head(rows), cols, term) THEN <<Head(rows)>> \o rest ELSE rest

\* mutant of Filtered: the filtering flag is not consulted
FilteredWhateverFlag(rows, cols, enabled, term) ==
  IF term = <<>> THEN rows ELSE FilterRows(rows, cols, term)

Filtered(rows, cols, enabled, term) ==
  IF ~enabled \/ term = <<>> THEN rows ELSE FilterRows(rows, cols, term)

filteredData == Filtered(sortedData, columns, filtering, searchTerm)

\* the filter callback runs on every row; one throwing row fails the render
FilterThrows(rows, cols, term) ==
  \E i \in 1..Len(rows) : RowThrows(rows[i], cols, term)

\* the render of the current state throws: the filter stage runs only when
\* filtering is on and the search term is not empty
RenderThrows ==
  /\ filtering
  /\ searchTerm # <<>>
  /\ FilterThrows(sortedData, columns, searchTerm)

\* mutant of Paginated: the page number is taken as zero-based
PaginatedZeroBased(rows, page, size) ==
  LET startIndex == page * size
  IN Slice(rows, startIndex, startIndex + size)

Paginated(rows, page, size) ==
  LET startIndex == (page - 1) * size
  IN Slice(rows, startIndex, startIndex + size)

paginatedData == Paginated(filteredData, currentPage, pageSize)

TotalPagesOf(count, size) == Ceil(count, size)

totalPages == TotalPagesOf(Len(filteredData), pageSize)

----------------------------------------------------------------------------
(* Construction *)

\* mutant of InitialPageSize: another default
InitialPageSizeDefault20(p) ==
  IF "pageSize" \in DOMAIN p /\ p.pageSize # 0 THEN p.pageSize ELSE 20

\* useState(pagination?.pageSize || 10)
InitialPageSize(p) ==
  IF "pageSize" \in DOMAIN p /\ p.pageSize # 0 THEN p.pageSize ELSE 10

Init ==
  /\ columns \in ColumnSets
  /\ data \in DataSets
  /\ pagination \in Paginations
  /\ sorting \in BOOLEAN
  /\ filtering \in BOOLEAN
  /\ currentPage = 1
  /\ searchTerm = <<>>
  /\ pageSize = InitialPageSize(pagination)
  /\ sortConfig = Null

\* construction over tables whose rows may lack a field
InitMissing ==
  /\ columns \in ColumnSets
  /\ data \in DataSetsMissing
  /\ pagination \in Paginations
  /\ sorting \in BOOLEAN
  /\ filtering \in BOOLEAN
  /\ currentPage = 1
  /\ searchTerm = <<>>
  /\ pageSize = InitialPageSize(pagination)
  /\ sortConfig = Null

----------------------------------------------------------------------------
(* Interaction handlers *)

\* mutant of handleSearch: the page is not reset
handleSearchKeepsPage(value) ==
  /\ searchTerm' = value
  /\ UNCHANGED <<props, currentPage, pageSize, sortConfig>>

handleSearch(value) ==
  /\ searchTerm' = value
  /\ currentPage' = 1
  /\ UNCHANGED <<props, pageSize, sortConfig>>

handlePageSizeChange(value) ==
  /\ pageSize' = value
  /\ currentPage' = 1
  /\ UNCHANGED <<props, searchTerm, sortConfig>>

\* mutant of NextSortConfig: a third activation clears the sort
NextSortConfigThreeState(cfg, key) ==
  IF cfg # Null /\ cfg.key = key /\ cfg.direction = "ascending"
    THEN [key |-> key, direction |-> "descending"]
  ELSE IF cfg # Null /\ cfg.key = key THEN Null
  ELSE [key |-> key, direction |-> "ascending"]

\* the sort spec handleSort(key) sets
NextSortConfig(cfg, key) ==
  IF cfg # Null /\ cfg.key = key /\ cfg.direction = "ascending"
    THEN [key |-> key, direction |-> "descending"]
  ELSE [key |-> key, direction |-> "ascending"]

\* mutant of handleSort: the page is reset as the other handlers reset it
handleSortResetsPage(key) ==
  /\ sortConfig' = NextSortConfig(sortConfig, key)
  /\ currentPage' = 1
  /\ UNCHANGED <<props, searchTerm, pageSize>>

\* mutant of handleSort: the sort is done in place, on the caller's array
handleSortInPlace(key) ==
  /\ sortConfig' = NextSortConfig(sortConfig, key)
  /\ data' = SortBy(data, NextSortConfig(sortConfig, key))
  /\ UNCHANGED <<columns, pagination, sorting, filtering,
                 currentPage, searchTerm, pageSize>>

handleSort(key) ==
  /\ sortConfig' = NextSortConfig(sortConfig, key)
  /\ UNCHANGED <<props, currentPage, searchTerm, pageSize>>

\* mutant of SortAttached: the column's sortable flag is not consulted
SortAttachedToAll(enabled, column) == enabled

\* whether the click on a header reaches handleSort
SortAttached(enabled, column) == enabled /\ column.sortable

\* onClick of the i-th column header
HeaderClick(i) ==
  IF SortAttached(sorting, columns[i])
    THEN handleSort(columns[i].accessor)
  ELSE UNCHANGED vars

PreviousDisabled == currentPage = 1
NextDisabled == currentPage = totalPages

\* mutant of PreviousPage: no floor at 1
PreviousPageNoFloor(prev) == prev - 1

\* mutant of NextPage: no ceiling at totalPages
NextPageNoCeiling(prev, total) == prev + 1

PreviousPage(prev) == Max(prev - 1, 1)
NextPage(prev, total) == Min(prev + 1, total)

\* activation of the Previous button: a disabled button fires no handler
PreviousClick ==
  IF PreviousDisabled THEN UNCHANGED vars
  ELSE /\ currentPage' = PreviousPage(currentPage)
       /\ UNCHANGED <<props, searchTerm, pageSize, sortConfig>>

\* activation of the Next button
NextClick ==
  IF NextDisabled THEN UNCHANGED vars
  ELSE /\ currentPage' = NextPage(currentPage, totalPages)
       /\ UNCHANGED <<props, searchTerm, pageSize, sortConfig>>

----------------------------------------------------------------------------
(* Events.  Each is an event on the rendered component, so none happens    *)
(* once a render has thrown; the search input and the page-size selector   *)
(* are rendered only when filtering is on.                                 *)

\* mutant of SearchChange: the search input is rendered whatever filtering is
SearchChangeAlwaysRendered ==
  /\ ~RenderThrows
  /\ \E value \in SearchTerms : handleSearch(value)

SearchChange ==
  /\ ~RenderThrows
  /\ filtering
  /\ \E value \in SearchTerms : handleSearch(value)

PageSizeChange ==
  /\ ~RenderThrows
  /\ filtering
  /\ \E value \in PageSizeOptions : handlePageSizeChange(value)

HeaderActivation ==
  /\ ~RenderThrows
  /\ \E i \in 1..Len(columns) : HeaderClick(i)

Previous ==
  /\ ~RenderThrows
  /\ PreviousClick

NextButton ==
  /\ ~RenderThrows
  /\ NextClick

Next ==
  \/ SearchChange
  \/ PageSizeChange
  \/ HeaderActivation
  \/ Previous
  \/ NextButton

Spec == Init /\ [][Next]_vars

\* the same component over tables whose rows may lack a field
SpecMissing == InitMissing /\ [][Next]_vars

----------------------------------------------------------------------------
(* Properties *)

Ascending(key) == [key |-> key, direction |-> "ascending"]
Descending(key) == [key |-> key, direction |-> "descending"]

\* C1: in every reachable state 1 <= currentPage <= totalPages, the states
\* with an empty filtered row set included.
C1_CurrentPageInRange == 1 <= currentPage /\ currentPage <= totalPages

\* C2: totalPages is at least 1 in every reachable state, also when the
\* filtered row set is empty.
C2_TotalPagesAtLeastOne == totalPages >= 1

\* C3: a search change sets searchTerm to the new text and currentPage to 1,
\* a page-size change sets pageSize to the selected value and currentPage to
\* 1, whatever the page was; neither changes the sort spec.
C3_SearchAndPageSizeResetPage ==
  [][/\ \A value \in SearchTerms :
          handleSearch(value) =>
            (searchTerm' = value /\ currentPage' = 1 /\ sortConfig' = sortConfig)
     /\ \A value \in PageSizeOptions :
          handlePageSizeChange(value) =>
            (pageSize' = value /\ currentPage' = 1 /\ sortConfig' = sortConfig)]_vars

\* a search and a page-size change have both acted, on a sorted table
C3_Witness ==
  /\ searchTerm = <<"a">>
  /\ pageSize = 5
  /\ pagination = [pageSize |-> 2]
  /\ sortConfig # Null
  /\ currentPage = 1
  /\ Len(filteredData) >= 2

RECURSIVE C4_ConcatPages(_)
\* pages 1..n of filteredData, one after the other
C4_ConcatPages(n) ==
  IF n = 0 THEN <<>>
  ELSE C4_ConcatPages(n - 1) \o Paginated(filteredData, n, pageSize)

\* C4: for non-empty data, every page p in 1..totalPages is the slice
\* [(p-1)*pageSize, (p-1)*pageSize + pageSize) of filteredData clipped to its
\* length, holds at most pageSize rows, and the pages in order concatenate
\* to filteredData.
C4_PagesPartitionFilteredData ==
  data # <<>> =>
    /\ \A p \in 1..totalPages :
         LET page == Paginated(filteredData, p, pageSize)
             first == (p - 1) * pageSize
         IN /\ Len(page) <= pageSize
            /\ Len(page) = Min(pageSize, Len(filteredData) - first)
            /\ \A i \in 1..Len(page) : page[i] = filteredData[first + i]
    /\ C4_ConcatPages(totalPages) = filteredData

\* the last of several pages of a filtered table, and it is not full
C4_Witness ==
  /\ searchTerm # <<>>
  /\ Len(filteredData) < Len(data)
  /\ totalPages >= 2
  /\ currentPage = totalPages
  /\ Len(paginatedData) >= 1
  /\ Len(paginatedData) < pageSize

\* C5: activating a sortable header with key k sets {k, ascending} when
\* there is no sort or the sort is on another key, {k, descending} when it
\* is {k, ascending}, {k, ascending} when it is {k, descending}; a sort
\* spec, once set, never returns to none.
C5_TwoStateToggle ==
  [][/\ \A i \in 1..Len(columns) :
          (sorting /\ columns[i].sortable /\ HeaderClick(i)) =>
            LET k == columns[i].accessor
            IN sortConfig' =
                 IF sortConfig = Null THEN Ascending(k)
                 ELSE IF sortConfig.key # k THEN Ascending(k)
                 ELSE IF sortConfig.direction = "ascending" THEN Descending(k)
                 ELSE Ascending(k)
     /\ (sortConfig # Null => sortConfig' # Null)]_vars

\* a second activation of the same header has acted
C5_Witness == sortConfig = Descending("age")

\* C6: header activation changes nothing unless sorting is enabled and the
\* column is sortable; so the sort spec is none or its key is the accessor
\* of a sortable column, and it is none whenever sorting is disabled.
C6_SortOnlyViaSortableHeader ==
  /\ [](/\ (~sorting => sortConfig = Null)
        /\ (sortConfig # Null =>
              \E i \in 1..Len(columns) :
                columns[i].sortable /\ columns[i].accessor = sortConfig.key))
  /\ [][\A i \in 1..Len(columns) :
          (~(sorting /\ columns[i].sortable) /\ HeaderClick(i)) =>
            UNCHANGED vars]_vars

\* a sort is active while another column is not sortable
C6_Witness ==
  /\ sorting
  /\ sortConfig = Descending("name")
  /\ \E i \in 1..Len(columns) : ~columns[i].sortable

\* a step that changes currentPage and nothing else: the only steps of
\* Previous and Next that are not stuttering steps
PageMoves ==
  /\ currentPage' # currentPage
  /\ UNCHANGED <<props, searchTerm, pageSize, sortConfig>>

\* C7: Next adds exactly 1 to currentPage when currentPage < totalPages and
\* never moves it above totalPages; on the last page it is disabled and
\* changes nothing.  With pageSize 2 and 5 unfiltered rows totalPages is 3,
\* and on page 3 Next is disabled and the page holds 1 row.
C7_NextWithinBounds ==
  /\ []((Len(data) = 5 /\ searchTerm = <<>> /\ pageSize = 2) =>
          /\ totalPages = 3
          /\ (currentPage = 3 => (NextDisabled /\ Len(paginatedData) = 1)))
  /\ [][(PageMoves /\ NextClick) =>
          /\ (currentPage < totalPages => currentPage' = currentPage + 1)
          /\ currentPage' <= totalPages
          /\ (currentPage = totalPages => UNCHANGED vars)]_vars

\* page 3 of 3 of the five-row table
C7_Witness ==
  /\ Len(data) = 5
  /\ searchTerm = <<>>
  /\ pageSize = 2
  /\ currentPage = 3

\* C8: Previous takes exactly 1 from currentPage when currentPage > 1 and
\* never moves it below 1; on page 1 it is disabled and changes nothing.
\* Previous on page 1 and Next on the last page leave the state as it is,
\* so a second activation there gives the state of the first.
C8_PreviousWithinBounds ==
  [][/\ (PageMoves /\ PreviousClick) =>
          /\ (currentPage > 1 => currentPage' = currentPage - 1)
          /\ currentPage' >= 1
          /\ (currentPage = 1 => UNCHANGED vars)
     /\ (PageMoves /\ NextClick) => currentPage # totalPages]_vars

\* a middle page: Previous and Next are both enabled
C8_Witness ==
  /\ currentPage = 2
  /\ totalPages = 3
  /\ ~PreviousDisabled

\* whether some column's text of the row holds the search term, both in
\* lower case
C9_Matches(row) ==
  \E c \in 1..Len(columns) :
    LET text == toString(Get(row, columns[c].accessor))
    IN \E off \in 0..(Len(text) - Len(searchTerm)) :
         \A j \in 1..Len(searchTerm) :
           LowerChar(text[off + j]) = LowerChar(searchTerm[j])

\* the positions of sortedData the filter is to keep
C9_Kept == {i \in 1..Len(sortedData) : C9_Matches(sortedData[i])}

\* C9: with filtering on and a non-empty search term, filteredData holds
\* exactly the rows of sortedData of which some column's text, lowercased,
\* contains the lowercased term, in sortedData's order; it is no longer than
\* sortedData; the term "a" over [Amy, Bob] keeps Amy alone.
C9_FilterKeepsExactlyMatches ==
  (filtering /\ searchTerm # <<>>) =>
    /\ Len(filteredData) = Cardinality(C9_Kept)
    /\ \A i \in C9_Kept :
         filteredData[Cardinality({j \in C9_Kept : j <= i})] = sortedData[i]
    /\ Len(filteredData) <= Len(sortedData)
    /\ (data = <<Amy25, Bob30>> /\ searchTerm = <<"a">>) =>
         filteredData = <<Amy25>>

\* an upper-case term keeps some rows of a sorted table and drops others
C9_Witness ==
  /\ filtering
  /\ searchTerm = <<"M", "y">>
  /\ sortConfig # Null
  /\ Len(filteredData) >= 2
  /\ Len(filteredData) < Len(sortedData)

C10_Key(i) == Get(data[i], sortConfig.key)

\* a comes strictly before b in the direction of the sort spec
C10_Before(a, b) ==
  IF sortConfig.direction = "ascending" THEN Less(a, b) ELSE Less(b, a)

\* the place of data[j] in a stable sort: after the rows that come strictly
\* before it and after the earlier rows that tie with it
C10_Rank(j) ==
  Cardinality({m \in 1..Len(data) : C10_Before(C10_Key(m), C10_Key(j))})
  + Cardinality({m \in 1..(j - 1) :
                   /\ ~C10_Before(C10_Key(m), C10_Key(j))
                   /\ ~C10_Before(C10_Key(j), C10_Key(m))})
  + 1

\* C10: with sorting on and sort spec {k, d}, sortedData is a permutation of
\* data, non-decreasing at k when d is ascending and non-increasing when d is
\* descending, and rows that tie at k keep their order from data in both
\* directions; [Bob, Amy, Cid] gives [Amy, Bob, Cid] ascending and
\* [Cid, Bob, Amy] descending.
C10_StableSort ==
  (sorting /\ sortConfig # Null) =>
    /\ Len(sortedData) = Len(data)
    /\ {C10_Rank(j) : j \in 1..Len(data)} = 1..Len(data)
    /\ \A j \in 1..Len(data) : sortedData[C10_Rank(j)] = data[j]
    /\ \A i \in 1..(Len(sortedData) - 1) :
         ~C10_Before(Get(sortedData[i + 1], sortConfig.key),
                     Get(sortedData[i], sortConfig.key))
    /\ (data = BobAmyCid /\ sortConfig = Ascending("name")) =>
         sortedData = <<Amy25, Bob30, Cid30>>
    /\ (data = BobAmyCid /\ sortConfig = Descending("name")) =>
         sortedData = <<Cid30, Bob30, Amy25>>

\* a descending sort of rows of which two tie and are not adjacent
C10_Witness ==
  /\ sorting
  /\ data = AmyBobAmy
  /\ sortConfig = Descending("name")
  /\ sortedData = <<Bob30, Amy25, Amy7>>

\* C11: a row that lacks a field some column reads never makes an operation
\* fail: no reachable state is an error state, the filter keeps such a row
\* only if a column it does have matches, and the sort compares it as neither
\* less nor greater.
C11_MissingFieldNeverFails ==
  /\ ~RenderThrows
  /\ (filtering /\ searchTerm # <<>>) =>
       Len(filteredData) =
         Cardinality({i \in 1..Len(sortedData) :
                        RowMatches(sortedData[i], columns, searchTerm)})
  /\ sortConfig # Null =>
       \A i, j \in 1..Len(data) :
         ToStringThrows(Get(data[i], sortConfig.key)) =>
           /\ Compare(data[i], data[j], sortConfig) = 0
           /\ Compare(data[j], data[i], sortConfig) = 0

\* C12: no event and no recomputation modifies the caller's data or columns:
\* across every step the data has the same rows in the same order and the
\* columns are the same.
C12_InputsNeverModified == [][data' = data /\ columns' = columns]_vars

\* sorted, filtered and on the second page: the sorted rows are in another
\* order than the data
C12_Witness ==
  /\ sortConfig # Null
  /\ sortedData # data
  /\ searchTerm # <<>>
  /\ currentPage = 2

\* C13: the sort stage applied to its own output, with the same key and
\* direction, gives that output again.
C13_SortIdempotent ==
  (sorting /\ sortConfig # Null) =>
    Sorted(sortedData, sorting, sortConfig) = sortedData

\* a sort by age of five rows, two of which tie, that reorders them
C13_Witness ==
  /\ sorting
  /\ data = FiveRows
  /\ sortConfig = Ascending("age")
  /\ sortedData # data

\* the sort specs a header activation can set
C14_SortSpecs ==
  {Ascending(k) : k \in {"name", "age"}} \cup {Descending(k) : k \in {"name", "age"}}

\* C14: each stage is the identity when its feature is inactive: with
\* sorting disabled or no sort spec sortedData is data in its order; with
\* filtering disabled or an empty search term filteredData is sortedData,
\* whatever searchTerm holds; the paginate stage is applied in all cases.
C14_InactiveStagesAreIdentity ==
  /\ (~sorting \/ sortConfig = Null) => sortedData = data
  /\ \A cfg \in C14_SortSpecs : Sorted(data, FALSE, cfg) = data
  /\ (~filtering \/ searchTerm = <<>>) => filteredData = sortedData
  /\ \A term \in SearchTerms :
       Filtered(sortedData, columns, FALSE, term) = sortedData
  /\ LET first == (currentPage - 1) * pageSize
         shown == {i \in 1..Len(filteredData) : first < i /\ i <= first + pageSize}
     IN /\ Len(paginatedData) = Cardinality(shown)
        /\ \A i \in shown : paginatedData[i - first] = filteredData[i]

\* sorted but not filtered, on the second page of several
C14_Witness ==
  /\ sortConfig # Null
  /\ ~filtering
  /\ sortedData # data
  /\ currentPage = 2
  /\ Len(paginatedData) >= 1
  /\ Len(filteredData) > Len(paginatedData)

\* the page size the caller configured, 10 when none is configured
C15_Configured ==
  IF "pageSize" \in DOMAIN pagination THEN pagination.pageSize ELSE 10

\* C15: pageSize starts at the configured initial page size (10 when none
\* is configured); in every reachable state it is a positive integer that
\* is the configured size or one of 5, 10, 25, 50; a change of pageSize can
\* only set it to one of 5, 10, 25, 50.
C15_PageSizeDomain ==
  /\ pageSize = C15_Configured
  /\ [](/\ pageSize \in Nat
        /\ pageSize > 0
        /\ pageSize \in {C15_Configured} \cup {5, 10, 25, 50})
  /\ [][pageSize' # pageSize => pageSize' \in {5, 10, 25, 50}]_vars

\* the selector has replaced a configured size of 2 by 25
C15_Witness ==
  /\ pagination = [pageSize |-> 2]
  /\ pageSize = 25

\* C16: header activation changes only the sort spec: currentPage, pageSize
\* and searchTerm stay, so a re-sort on page p stays on page p and shows the
\* p-th slice of the re-sorted rows; the filtered count is the same, so a
\* currentPage within [1, totalPages] stays within it.
C16_HeaderChangesOnlySort ==
  [][\A i \in 1..Len(columns) :
       (sortConfig' # sortConfig /\ HeaderClick(i)) =>
         /\ UNCHANGED <<props, currentPage, pageSize, searchTerm>>
         /\ LET after == Filtered(Sorted(data, sorting, sortConfig'),
                                  columns, filtering, searchTerm)
                page == Paginated(after, currentPage', pageSize')
                first == (currentPage - 1) * pageSize
            IN /\ Len(after) = Len(filteredData)
               /\ TotalPagesOf(Len(after), pageSize') = totalPages
               /\ (1 <= currentPage /\ currentPage <= totalPages) =>
                    /\ 1 <= currentPage'
                    /\ currentPage' <= TotalPagesOf(Len(after), pageSize')
                    /\ Len(page) = Len(paginatedData)
                    /\ \A k \in 1..Len(page) : page[k] = after[first + k]]_vars

\* a page after the first of a sorted table, showing other rows than that
\* page of the unsorted table
C16_Witness ==
  /\ currentPage >= 2
  /\ sortConfig # Null
  /\ Len(paginatedData) >= 1
  /\ paginatedData #
       Paginated(Filtered(data, columns, filtering, searchTerm), currentPage, pageSize)

\* C17: with filtering disabled there is no search input and no page-size
\* selector: searchTerm stays empty and pageSize stays at its initial value
\* in every reachable state, and a step changes at most currentPage and the
\* sort spec.
C17_FilteringOffFreezesSearchAndSize ==
  /\ [](~filtering => (searchTerm = <<>> /\ pageSize = C15_Configured))
  /\ [][~filtering => UNCHANGED <<props, searchTerm, pageSize>>]_vars

\* filtering is off, and Next and a header activation have acted
C17_Witness ==
  /\ ~filtering
  /\ currentPage = 2
  /\ sortConfig # Null

\* how often row occurs in rows
C18_Count(row, rows) == Cardinality({i \in 1..Len(rows) : rows[i] = row})

\* C18: the sort and filter stages commute: filtering the sorted rows gives
\* the sequence that sorting the filtered data gives; and every row of
\* paginatedData is a row of data, occurring no more often than in data.
C18_SortAndFilterCommute ==
  /\ filteredData =
       Sorted(Filtered(data, columns, filtering, searchTerm), sorting, sortConfig)
  /\ \A i \in 1..Len(paginatedData) :
       /\ C18_Count(paginatedData[i], data) >= 1
       /\ C18_Count(paginatedData[i], paginatedData) <= C18_Count(paginatedData[i], data)

\* both stages are active, each changes the sequence, and a row is shown
\* twice on the page
C18_Witness ==
  /\ sorting /\ sortConfig # Null
  /\ filtering /\ searchTerm # <<>>
  /\ sortedData # data
  /\ Len(filteredData) < Len(sortedData)
  /\ \E i \in 1..Len(paginatedData) :
       C18_Count(paginatedData[i], paginatedData) >= 2

====
